---- MODULE Spec2Model ----
(***************************************************************************)
(* A model of gazelle/api_classes.py: the rate-limited request dispatcher, *)
(* the response classification, the two authentication strategies and the  *)
(* lazily cached account info of the gazelle tracker clients.              *)
(*                                                                         *)
(* One client object exists at a time (client = "none" when there is       *)
(* none).  Every public operation of the client is one action; the         *)
(* transport's reply, the credential source and the cookie file are the    *)
(* environment and are drawn from small sets.                              *)
(***************************************************************************)
EXTENDS Integers, Sequences, FiniteSets, TLC

VARIABLES
    now,            \* time.time(), in seconds
    client,         \* class of the live client object, "none" when there is none
    req_limit,      \* tr.req_limit of the tracker profile
    last_x_reqs,    \* self.last_x_reqs, oldest first
    account_info,   \* self._account_info: <<>> is None, <<d>> is the dict d
    cookies,        \* self.session.cookies
    cookieFile,     \* the file cookie<name>.txt on disk
    sent,           \* history: dispatch times of the exchanges made by request()
    fetched,        \* history: the values get_account_info returned to this client
    last            \* history: the last operation, its exchanges and its outcome

vars == <<now, client, req_limit, last_x_reqs, account_info, cookies,
          cookieFile, sent, fetched, last>>

(***************************************************************************)
(* Bounds of the model.                                                    *)
(***************************************************************************)
MaxLimit == 3       \* req_limit is 1 or MaxLimit
MaxReqs == 3        \* exchanges dispatched by request() in one client's life
MaxCalls == 2       \* the same, when the clock is driven by the calls alone
MaxTime == 22       \* no operation starts after this time
MaxLatency == 1     \* seconds between dispatch and the return of the transport
Epoch == 11         \* time.time() of the initial state

(***************************************************************************)
(* Program constants.                                                      *)
(***************************************************************************)
Window == 10        \* seconds, _rate_limit
Sentinel == 0       \* deque([.0]), the far-past first entry

(***************************************************************************)
(* Python values.  A dict is a function on its keys; a value handed to the *)
(* caller is tagged with its type.                                         *)
(***************************************************************************)
None == <<"none">>
DictVal(d) == <<"dict", d>>
BytesVal(b) == <<"bytes", b>>
StrVal(s) == <<"str", s>>

Return(v) == [kind |-> "return", exc |-> "", val |-> v]
Raise(e, v) == [kind |-> "raise", exc |-> e, val |-> v]

InfoKeys == {"authkey", "passkey", "id", "username"}

Dict(S, v) == [k \in S |-> v]

\* dicts a tracker may send as the "response" field of its envelope
Payloads ==
    {Dict(InfoKeys \cup {"notifications"}, v) : v \in 1..2}
        \cup {Dict({"notifications"}, 1), Dict({"authkey", "notifications"}, 1)}

\* a JSON object; each member is given as a set, empty when it is absent
Envelope(status, response, error) ==
    [k \in ({"status" : x \in status} \cup {"response" : x \in response}
                \cup {"error" : x \in error}) |->
        CASE k = "status" -> CHOOSE x \in status : TRUE
          [] k = "response" -> CHOOSE x \in response : TRUE
          [] OTHER -> CHOOSE x \in error : TRUE]

(***************************************************************************)
(* What the transport can answer.  kind: "object" (the body parses as a    *)
(* JSON object), "nonobject" (it parses as a JSON array, number, string or *)
(* null), "unparseable" (r.json() raises JSONDecodeError), "neterr"        *)
(* (session.request raises, no response at all).                           *)
(* ctype is the content-type header ("" when the header is absent), code   *)
(* the HTTP status, content the raw body, page the set of account fields   *)
(* the HTML patterns find in the body text, cookie the name of the cookie  *)
(* the response sets ("" for none), lat the time the exchange took.        *)
(***************************************************************************)
Resp(kind, body, ctype, code, content, page, cookie, lat) ==
    [kind |-> kind, body |-> body, ctype |-> ctype, code |-> code,
     content |-> content, page |-> page, cookie |-> cookie, lat |-> lat]

JsonResp(body) == Resp("object", body, "application/json", 200, 0, {}, "", 0)

TorrentTypes == {"application/x-bittorrent", "application/x-bittorrent; charset=utf-8"}

SuccessResps ==
    {JsonResp(Envelope({"success"}, {p}, {})) : p \in Payloads}
        \cup {JsonResp(Envelope({"success"}, {}, {}))}

FailureResps ==
    {JsonResp(Envelope({"failure"}, {}, {e})) : e \in {"bad", "worse"}}
        \cup {JsonResp(Envelope({"failure"}, {}, {}))}

OtherResps ==
    {JsonResp(Envelope({"error"}, {}, {"bad"})),
     JsonResp(Envelope({}, {Dict(InfoKeys, 1)}, {})),
     JsonResp(Envelope({}, {}, {})),
     Resp("object", Envelope({"success"}, {Dict(InfoKeys, 1)}, {}),
          "application/x-bittorrent", 200, 0, {}, "", 0),
     Resp("nonobject", <<>>, "application/json", 200, 0, {}, "", 0)}

TorrentResps ==
    {Resp("unparseable", <<>>, "application/x-bittorrent", 200, b, {}, "", 0) :
        b \in 1..2}
        \cup {Resp("unparseable", <<>>, "application/x-bittorrent; charset=utf-8",
                   200, 1, {}, "", 0)}

HtmlResps ==
    {Resp("unparseable", <<>>, "text/html", c, 1, {}, "", 0) : c \in {200, 500}}
        \cup {Resp("unparseable", <<>>, "", 200, 1, {}, "", 0)}

\* index pages of the HTML-only tracker
PageResps ==
    {Resp("unparseable", <<>>, "text/html", 200, v, {"authkey", "passkey", "id"},
          "", 0) : v \in 1..2}
        \cup {Resp("unparseable", <<>>, "text/html", 200, 1,
                   {"authkey", "passkey"}, "", 0)}

NetErr(lat) == Resp("neterr", <<>>, "", 0, 0, {}, "", lat)

Responses ==
    SuccessResps \cup FailureResps \cup OtherResps \cup TorrentResps
        \cup HtmlResps \cup PageResps \cup {NetErr(0)}

\* _rate_limit as it would be if it looked at the newest entry
RateLimitNewest(t, reqs) ==
    IF t - reqs[Len(reqs)] <= Window
    THEN t + (Window - (t - reqs[Len(reqs)])) ELSE t

(***************************************************************************)
(* BaseApi._rate_limit: the time at which it returns.                      *)
(***************************************************************************)
RateLimit(t, reqs) ==
    IF t - Head(reqs) <= Window THEN t + (Window - (t - Head(reqs))) ELSE t

\* deque(maxlen=n).append
DequeAppend(reqs, x, n) ==
    IF Len(reqs) >= n THEN Append(Tail(reqs), x) ELSE Append(reqs, x)

(***************************************************************************)
(* BaseApi.request, lines 65-79: the classification of a response.         *)
(***************************************************************************)
Interpret(r) ==
    IF r.kind = "unparseable"
    THEN IF r.ctype = "" THEN Raise("KeyError", StrVal("content-type"))
         ELSE IF r.ctype \in TorrentTypes THEN Return(BytesVal(r.content))
         ELSE Raise("RequestFailure", StrVal("no json, no torrent"))
    ELSE IF r.kind = "nonobject" THEN Raise("AttributeError", StrVal("get"))
    ELSE LET status == IF "status" \in DOMAIN r.body THEN r.body["status"] ELSE ""
         IN  IF status = "success"
             THEN IF "response" \in DOMAIN r.body
                  THEN Return(DictVal(r.body["response"]))
                  ELSE Raise("KeyError", StrVal("response"))
             ELSE IF status = "failure"
             THEN IF "error" \in DOMAIN r.body
                  THEN Raise("RequestFailure", StrVal(r.body["error"]))
                  ELSE Raise("KeyError", StrVal("error"))
             ELSE Raise("RequestFailure", DictVal(r.body))

(***************************************************************************)
(* The part of the state one call works on: the clock, the client's        *)
(* fields, the exchanges made so far by the running operation (wire) and   *)
(* the outcome of the last call (out).                                     *)
(***************************************************************************)
Mem(t, reqs, jar, hist) ==
    [now |-> t, reqs |-> reqs, cookies |-> jar, sent |-> hist, wire |-> <<>>,
     out |-> Return(None)]

Cookie(name) == [name |-> name, expired |-> FALSE]

SetCookies(r) == IF r.cookie = "" THEN {} ELSE {Cookie(r.cookie)}

Exchange(via, suffix, action, hasData, at, r) ==
    [via |-> via, suffix |-> suffix, action |-> action,
     method |-> IF hasData THEN "POST" ELSE "GET", at |-> at, resp |-> r]

(***************************************************************************)
(* BaseApi.request.  action = "" when no action parameter is passed.  The  *)
(* timestamp is appended after session.request has returned; when it       *)
(* raises, the call is left before the append.                             *)
(***************************************************************************)
BaseRequest(m, suffix, action, hasData, r) ==
    LET at == RateLimit(m.now, m.reqs)
        done == at + r.lat
        ex == Exchange("request", suffix, action, hasData, at, r)
    IN  IF r.kind = "neterr"
        THEN [m EXCEPT !.now = done, !.sent = Append(@, at),
                       !.wire = Append(@, ex),
                       !.out = Raise("ConnectionError", None)]
        ELSE [m EXCEPT !.now = done, !.sent = Append(@, at),
                       !.wire = Append(@, ex),
                       !.reqs = DequeAppend(@, done, req_limit),
                       !.cookies = @ \cup SetCookies(r),
                       !.out = Interpret(r)]

KeyKinds == {"Red", "Ops"}
CookieKinds == {"Cookie", "Html"}
Kinds == KeyKinds \cup CookieKinds

\* KeyApi.request as it would be if upload and login kept their own paths
KeyRouteOwnPath(action) ==
    IF action \in {"upload", "login"}
    THEN [suffix |-> action, action |-> ""]
    ELSE [suffix |-> "ajax", action |-> action]

\* KeyApi.request
KeyRoute(action) == [suffix |-> "ajax", action |-> action]

\* CookieApi.request
CookieRoute(action) ==
    IF action \in {"upload", "login"}
    THEN [suffix |-> action, action |-> ""]
    ELSE [suffix |-> "ajax", action |-> action]

Route(kind, action) ==
    IF kind \in KeyKinds THEN KeyRoute(action) ELSE CookieRoute(action)

\* self.request of a client of class kind
ClientRequest(m, kind, action, hasData, r) ==
    BaseRequest(m, Route(kind, action).suffix, Route(kind, action).action,
                hasData, r)

(***************************************************************************)
(* The cookie file.  st: "missing", "malformed" (LoadError), "unreadable"  *)
(* (another OSError), "jar" (a cookie jar holding the cookies of jar).     *)
(***************************************************************************)
File(st, jar) == [st |-> st, jar |-> jar]

SessionCookies(jar) == {c \in jar : c.name = "session"}

\* _load_cookie as it would be if expiry were checked nowhere
LoadCookieAnyExpiry(file) ==
    IF file.st = "unreadable"
    THEN [exc |-> "PermissionError", ok |-> FALSE, jar |-> {}]
    ELSE IF file.st \in {"missing", "malformed"}
    THEN [exc |-> "", ok |-> FALSE, jar |-> {}]
    ELSE [exc |-> "", ok |-> SessionCookies(file.jar) # {}, jar |-> file.jar]

\* CookieApi._load_cookie; LWPCookieJar.load leaves expired cookies out
LoadCookie(file) ==
    LET loaded == {c \in file.jar : ~c.expired}
    IN  IF file.st = "unreadable"
        THEN [exc |-> "PermissionError", ok |-> FALSE, jar |-> {}]
        ELSE IF file.st \in {"missing", "malformed"}
        THEN [exc |-> "", ok |-> FALSE, jar |-> {}]
        ELSE IF SessionCookies(loaded) = {}
        THEN [exc |-> "", ok |-> FALSE, jar |-> loaded]
        ELSE [exc |-> "",
              ok |-> ~(CHOOSE c \in SessionCookies(loaded) : TRUE).expired,
              jar |-> loaded]

\* LWPCookieJar.save
SaveCookies(jar) == File("jar", {c \in jar : ~c.expired})

\* _login as it would be without the assert on the session cookie
LoginNoAssert(m, kind, file, r) ==
    LET m1 == ClientRequest([m EXCEPT !.cookies = {}], kind, "login", TRUE, r)
    IN  IF m1.out.kind = "raise"
        THEN [m |-> m1, cred |-> 1, file |-> file]
        ELSE [m |-> [m1 EXCEPT !.out = Return(None)], cred |-> 1,
              file |-> SaveCookies(m1.cookies)]

\* CookieApi._login; the result carries the file and the credential calls
Login(m, kind, file, r) ==
    LET m1 == ClientRequest([m EXCEPT !.cookies = {}], kind, "login", TRUE, r)
    IN  IF m1.out.kind = "raise"
        THEN [m |-> m1, cred |-> 1, file |-> file]
        ELSE IF SessionCookies(m1.cookies) = {}
        THEN [m |-> [m1 EXCEPT !.out = Raise("AssertionError", None)],
              cred |-> 1, file |-> file]
        ELSE [m |-> [m1 EXCEPT !.out = Return(None)], cred |-> 1,
              file |-> SaveCookies(m1.cookies)]

\* authenticate as it would be if it logged in whatever _load_cookie said
CookieAuthenticateAlwaysLogin(m, kind, file, r) ==
    LET l == LoadCookie(file)
        m1 == [m EXCEPT !.cookies = l.jar]
    IN  IF l.exc # ""
        THEN [m |-> [m1 EXCEPT !.out = Raise(l.exc, None)], cred |-> 0,
              file |-> file]
        ELSE Login(m1, kind, file, r)

\* CookieApi.authenticate
CookieAuthenticate(m, kind, file, r) ==
    LET l == LoadCookie(file)
        m1 == [m EXCEPT !.cookies = l.jar]
    IN  IF l.exc # ""
        THEN [m |-> [m1 EXCEPT !.out = Raise(l.exc, None)], cred |-> 0,
              file |-> file]
        ELSE IF l.ok THEN [m |-> m1, cred |-> 0, file |-> file]
        ELSE Login(m1, kind, file, r)

\* KeyApi.authenticate
KeyAuthenticate(m, file) == [m |-> m, cred |-> 0, file |-> file]

Authenticate(m, kind, file, r) ==
    IF kind \in KeyKinds THEN KeyAuthenticate(m, file)
    ELSE CookieAuthenticate(m, kind, file, r)

(***************************************************************************)
(* Account info.                                                           *)
(***************************************************************************)
Restrict(d, S) == [k \in (DOMAIN d) \cap S |-> d[k]]

\* BaseApi.get_account_info
BaseGetAccountInfo(m, kind, r) ==
    LET m1 == ClientRequest(m, kind, "index", FALSE, r)
    IN  IF m1.out.kind = "raise" THEN m1
        ELSE IF m1.out.val[1] = "dict"
        THEN [m1 EXCEPT !.out = Return(DictVal(Restrict(m1.out.val[2], InfoKeys)))]
        ELSE [m1 EXCEPT !.out = Raise("AttributeError", StrVal("copy"))]

PageKeys == {"authkey", "passkey", "id"}

\* HtmlApi.get_account_info: session.get, not self.request
HtmlGetAccountInfo(m, r) ==
    LET ex == Exchange("raw", "index", "", FALSE, m.now, r)
        m1 == [m EXCEPT !.now = @ + r.lat, !.wire = Append(@, ex)]
    IN  IF r.kind = "neterr"
        THEN [m1 EXCEPT !.out = Raise("ConnectionError", None)]
        ELSE IF PageKeys \subseteq r.page
        THEN [m1 EXCEPT !.cookies = @ \cup SetCookies(r),
                        !.out = Return(DictVal(Dict(PageKeys, r.content)))]
        ELSE [m1 EXCEPT !.cookies = @ \cup SetCookies(r),
                        !.out = Raise("AttributeError", StrVal("group"))]

GetAccountInfo(m, kind, r) ==
    IF kind = "Html" THEN HtmlGetAccountInfo(m, r)
    ELSE BaseGetAccountInfo(m, kind, r)

\* "not self._account_info"
Falsy(info) == info = <<>> \/ DOMAIN info[1] = {}

\* the property account_info; got is what get_account_info returned, if called
AccountInfoProperty(m, kind, info, r) ==
    IF Falsy(info)
    THEN LET m1 == GetAccountInfo(m, kind, r)
         IN  IF m1.out.kind = "raise"
             THEN [m |-> m1, info |-> info, got |-> <<>>]
             ELSE [m |-> m1, info |-> <<m1.out.val[2]>>,
                   got |-> <<m1.out.val[2]>>]
    ELSE [m |-> [m EXCEPT !.out = Return(DictVal(info[1]))], info |-> info,
          got |-> <<>>]

\* the property announce; the template of the tracker profile names passkey
AnnounceProperty(m, kind, info, r) ==
    LET a == AccountInfoProperty(m, kind, info, r)
    IN  IF a.m.out.kind = "raise" THEN a
        ELSE IF "passkey" \in DOMAIN a.info[1]
        THEN [a EXCEPT !.m.out = Return(StrVal(a.info[1]["passkey"]))]
        ELSE [a EXCEPT !.m.out = Raise("KeyError", StrVal("passkey"))]

(***************************************************************************)
(* Uploads.  The upload data is a dict; the tuples handed to the caller    *)
(* hold ids, which are integers or None.                                   *)
(***************************************************************************)
IntVal(n) == <<"int", n>>
TupleVal(t) == <<"tuple", t>>

\* dict.get
Get(d, k) == IF k \in DOMAIN d THEN IntVal(d[k]) ELSE None

\* "if data.get(key)"
Truthy(d, k) == k \in DOMAIN d /\ d[k] = TRUE

\* "del data[key]"
Del(d, k) == [x \in (DOMAIN d) \ {k} |-> d[x]]

\* self.url + f"torrents.php?id={group_id}&torrentid={torrent_id}"
ViewUrl(group_id, torrent_id) == <<"torrents.php", group_id, torrent_id>>

\* self.request with a body; the exchange keeps the body that was posted
PostRequest(m, kind, action, data, r) ==
    LET m1 == ClientRequest(m, kind, action, TRUE, r)
    IN  [m1 EXCEPT !.wire[Len(m1.wire)] = @ @@ [data |-> data]]

\* upl_response_handler of the class kind, applied to what request() returned
UplResponseHandler(kind, v) ==
    IF kind \in CookieKinds THEN Raise("AttributeError", StrVal("url"))
    ELSE IF v[1] # "dict" THEN Raise("AttributeError", StrVal("get"))
    ELSE IF kind = "Red"
    THEN Return(TupleVal(<<Get(v[2], "torrentid"), Get(v[2], "groupid")>>))
    ELSE Return(TupleVal(<<Get(v[2], "torrentId"), Get(v[2], "groupId"),
                           ViewUrl(Get(v[2], "groupId"), Get(v[2], "torrentId"))>>))

\* BaseApi._uploader
BaseUploader(m, kind, data, r) ==
    LET m1 == PostRequest(m, kind, "upload", data, r)
    IN  IF m1.out.kind = "raise" THEN m1
        ELSE [m1 EXCEPT !.out = UplResponseHandler(kind, m1.out.val)]

\* the exceptions the follow-up edit is guarded against
Swallowed == {"RequestFailure", "HTTPError"}

\* RedApi._uploader as it would be if the follow-up were sent for every upload
RedUploaderAlwaysEdits(m, data, r, redit) ==
    LET m1 == BaseUploader(m, "Red", Del(data, "unknown"), r)
    IN  IF m1.out.kind = "raise" THEN m1
        ELSE LET ids == m1.out.val[2]
                 result == Return(TupleVal(<<ids[1], ids[2], ViewUrl(ids[2], ids[1])>>))
                 m2 == PostRequest(m1, "Red", "torrentedit", [unknown |-> TRUE], redit)
             IN  IF m2.out.kind = "raise" /\ m2.out.exc \notin Swallowed THEN m2
                 ELSE [m2 EXCEPT !.out = result]

\* RedApi._uploader; redit answers the follow-up torrentedit request
RedUploader(m, data, r, redit) ==
    LET unknown == Truthy(data, "unknown")
        m1 == BaseUploader(m, "Red", IF unknown THEN Del(data, "unknown") ELSE data, r)
    IN  IF m1.out.kind = "raise" THEN m1
        ELSE LET ids == m1.out.val[2]
                 result == Return(TupleVal(<<ids[1], ids[2], ViewUrl(ids[2], ids[1])>>))
                 m2 == PostRequest(m1, "Red", "torrentedit", [unknown |-> TRUE], redit)
             IN  IF ~unknown THEN [m1 EXCEPT !.out = result]
                 ELSE IF m2.out.kind = "raise" /\ m2.out.exc \notin Swallowed THEN m2
                 ELSE [m2 EXCEPT !.out = result]

\* CookieApi._uploader: it returns nothing
CookieUploader(m, kind, data, r) ==
    LET m1 == BaseUploader(m, kind, data @@ [submit |-> TRUE], r)
    IN  IF m1.out.kind = "raise" THEN m1 ELSE [m1 EXCEPT !.out = Return(None)]

Uploader(m, kind, data, r, redit) ==
    IF kind = "Red" THEN RedUploader(m, data, r, redit)
    ELSE IF kind = "Ops" THEN BaseUploader(m, kind, data, r)
    ELSE CookieUploader(m, kind, data, r)

\* BaseApi.upload; rinfo answers the index request, if announce makes one
Upload(m, kind, info, data, rinfo, r, redit) ==
    LET a == AnnounceProperty(m, kind, info, rinfo)
    IN  IF a.m.out.kind = "raise" THEN a
        ELSE [a EXCEPT !.m = Uploader(a.m, kind, data, r, redit)]

(***************************************************************************)
(* Torrent info and rip logs.                                              *)
(***************************************************************************)
\* BaseApi.torrent_info; the record is made by the mapping of the tracker
BaseTorrentInfo(m, kind, r) ==
    LET m1 == ClientRequest(m, kind, "torrent", FALSE, r)
    IN  IF m1.out.kind = "raise" THEN m1
        ELSE [m1 EXCEPT !.out = Return(<<"torrent_info", m1.out.val>>)]

\* torrent_info as it would be if HtmlApi did not override it
TorrentInfoInherited(m, kind, r) == BaseTorrentInfo(m, kind, r)

\* torrent_info of the class kind; HtmlApi.torrent_info only raises
TorrentInfoOf(m, kind, r) ==
    IF kind = "Html"
    THEN [m EXCEPT !.out = Raise("AttributeError", StrVal("no torrent info"))]
    ELSE BaseTorrentInfo(m, kind, r)

\* base64.b64decode and sha256(...).hexdigest() on the logs of the model
B64Decode(text) == text + 100
Sha256Hex(bytes) == 2 * bytes + 1

\* get_riplog as it would be without the assert on the checksum
GetRiplogUnchecked(m, r) ==
    LET m1 == ClientRequest(m, "Ops", "riplog", FALSE, r)
    IN  IF m1.out.kind = "raise" THEN m1
        ELSE IF m1.out.val[1] # "dict"
        THEN [m1 EXCEPT !.out = Raise("TypeError", StrVal("log"))]
        ELSE IF "log" \notin DOMAIN m1.out.val[2]
        THEN [m1 EXCEPT !.out = Raise("KeyError", StrVal("log"))]
        ELSE [m1 EXCEPT !.out = Return(BytesVal(B64Decode(m1.out.val[2]["log"])))]

\* OpsApi.get_riplog
GetRiplog(m, r) ==
    LET m1 == ClientRequest(m, "Ops", "riplog", FALSE, r)
    IN  IF m1.out.kind = "raise" THEN m1
        ELSE IF m1.out.val[1] # "dict"
        THEN [m1 EXCEPT !.out = Raise("TypeError", StrVal("log"))]
        ELSE IF "log" \notin DOMAIN m1.out.val[2]
        THEN [m1 EXCEPT !.out = Raise("KeyError", StrVal("log"))]
        ELSE LET d == m1.out.val[2]
                 log_bytes == B64Decode(d["log"])
             IN  IF "log_sha256" \notin DOMAIN d
                 THEN [m1 EXCEPT !.out = Raise("KeyError", StrVal("log_sha256"))]
                 ELSE IF Sha256Hex(log_bytes) # d["log_sha256"]
                 THEN [m1 EXCEPT !.out = Raise("AssertionError", None)]
                 ELSE [m1 EXCEPT !.out = Return(BytesVal(log_bytes))]

(***************************************************************************)
(* The state machine.                                                      *)
(***************************************************************************)
Jars ==
    {{[name |-> "other", expired |-> FALSE]},
     {[name |-> "session", expired |-> FALSE]},
     {[name |-> "session", expired |-> TRUE]}}

Files ==
    {File("missing", {}), File("malformed", {}), File("unreadable", {})}
        \cup {File("jar", j) : j \in Jars}

\* what the login endpoint can answer
LoginResps ==
    {[r EXCEPT !.cookie = c] :
        r \in {JsonResp(Envelope({"success"}, {Dict({}, 1)}, {})),
               Resp("unparseable", <<>>, "text/html", 200, 1, {}, "", 0)},
        c \in {"", "session", "other"}}
        \cup {JsonResp(Envelope({"failure"}, {}, {"bad"})), NetErr(0)}

\* file0 and had: the cookie file and the number of values fetched so far,
\* both as the operation found them
Op(op, arg, m, cred, file0) ==
    [op |-> op, arg |-> arg, wire |-> m.wire, out |-> m.out, cred |-> cred,
     file0 |-> file0, had |-> Len(fetched)]

Init ==
    /\ now = Epoch
    /\ client = "none"
    /\ req_limit \in {1, MaxLimit}
    /\ last_x_reqs = <<Sentinel>>
    /\ account_info = <<>>
    /\ cookies = {}
    /\ cookieFile \in Files
    /\ sent = <<>>
    /\ fetched = <<>>
    /\ last = Op("none", "", Mem(Epoch, <<Sentinel>>, {}, <<>>), 0, cookieFile)

\* time passes
Tick ==
    /\ now < MaxTime
    /\ now' = now + 1
    /\ UNCHANGED <<client, req_limit, last_x_reqs, account_info, cookies,
                   cookieFile, sent, fetched, last>>

\* the session cookie kept in the cookie file reaches its expiry time
ExpireCookie ==
    /\ client = "none"
    /\ \E c \in cookieFile.jar : c.name = "session" /\ ~c.expired
    /\ cookieFile' =
           [cookieFile EXCEPT !.jar =
               {IF c.name = "session" THEN [c EXCEPT !.expired = TRUE] ELSE c :
                    c \in @}]
    /\ UNCHANGED <<now, client, req_limit, last_x_reqs, account_info, cookies,
                   sent, fetched, last>>

\* BaseApi.__init__ of a client of class kind; r answers the login, if any
Construct(kind, r) ==
    /\ client = "none"
    /\ now <= MaxTime
    /\ LET a == Authenticate(Mem(now, <<Sentinel>>, {}, <<>>), kind, cookieFile, r)
           ok == a.m.out.kind = "return"
       IN  /\ client' = IF ok THEN kind ELSE "none"
           /\ now' = a.m.now
           /\ last_x_reqs' = IF ok THEN a.m.reqs ELSE <<Sentinel>>
           /\ cookies' = IF ok THEN a.m.cookies ELSE {}
           /\ sent' = IF ok THEN a.m.sent ELSE <<>>
           /\ cookieFile' = a.file
           /\ last' = Op("construct", kind, a.m, a.cred, cookieFile)
    /\ account_info' = <<>>
    /\ fetched' = <<>>
    /\ UNCHANGED req_limit

\* the client object is dropped; the cookie file stays
Discard ==
    /\ client # "none"
    /\ client' = "none"
    /\ last_x_reqs' = <<Sentinel>>
    /\ account_info' = <<>>
    /\ cookies' = {}
    /\ sent' = <<>>
    /\ fetched' = <<>>
    /\ last' = Op("discard", client, Mem(now, <<Sentinel>>, {}, <<>>), 0, cookieFile)
    /\ UNCHANGED <<now, req_limit, cookieFile>>

\* client.request(action, data=..., ...)
Request(action, hasData, r) ==
    /\ client # "none"
    /\ now <= MaxTime
    /\ Len(sent) < MaxReqs
    /\ \E m \in {ClientRequest(Mem(now, last_x_reqs, cookies, sent), client,
                              action, hasData, r)} :
           /\ now' = m.now
           /\ last_x_reqs' = m.reqs
           /\ cookies' = m.cookies
           /\ sent' = m.sent
           /\ last' = Op("request", action, m, 0, cookieFile)
    /\ UNCHANGED <<client, req_limit, account_info, cookieFile, fetched>>

Access(op, a) ==
    /\ now' = a.m.now
    /\ last_x_reqs' = a.m.reqs
    /\ cookies' = a.m.cookies
    /\ sent' = a.m.sent
    /\ account_info' = a.info
    /\ fetched' = fetched \o a.got
    /\ last' = Op(op, "", a.m, 0, cookieFile)
    /\ UNCHANGED <<client, req_limit, cookieFile>>

\* client.account_info
AccountInfo(r) ==
    /\ client # "none"
    /\ now <= MaxTime
    /\ Len(sent) < MaxReqs
    /\ Access("account_info",
              AccountInfoProperty(Mem(now, last_x_reqs, cookies, sent), client,
                                  account_info, r))

\* client.announce
Announce(r) ==
    /\ client # "none"
    /\ now <= MaxTime
    /\ Len(sent) < MaxReqs
    /\ Access("announce",
              AnnounceProperty(Mem(now, last_x_reqs, cookies, sent), client,
                               account_info, r))

\* what the data builder hands to upload
UploadData ==
    {[release |-> TRUE], [release |-> TRUE, unknown |-> TRUE],
     [release |-> TRUE, unknown |-> FALSE]}

\* the page an upload form is redirected to: its final URL and the red
\* paragraph of its text ("" when there is none)
Redirect(url, warning) ==
    Resp("unparseable", <<>>, "text/html", 200, 1, {}, "", 0)
        @@ [url |-> url, warning |-> warning]

InfoResps ==
    {JsonResp(Envelope({"success"}, {Dict(InfoKeys, 1)}, {})),
     JsonResp(Envelope({"failure"}, {}, {"bad"}))}

UploadResps ==
    {JsonResp(Envelope({"success"}, {[torrentid |-> 42, groupid |-> 7]}, {})),
     JsonResp(Envelope({"success"}, {[torrentId |-> 42, groupId |-> 7]}, {})),
     JsonResp(Envelope({"failure"}, {}, {"bad"})),
     NetErr(0),
     Redirect("torrents.php?id=7", ""), Redirect("upload.php", "dupe"),
     Redirect("upload.php", "")}

EditResps ==
    {JsonResp(Envelope({"success"}, {Dict({}, 1)}, {})),
     JsonResp(Envelope({"failure"}, {}, {"bad"})),
     Resp("unparseable", <<>>, "text/html", 500, 1, {}, "", 0),
     NetErr(0)}

\* the answers that can matter: announce asks only for missing account info,
\* and only RedApi sends the follow-up, for an upload flagged unknown
InfoRespsFor(info) ==
    IF Falsy(info) THEN InfoResps
    ELSE {JsonResp(Envelope({"success"}, {Dict(InfoKeys, 1)}, {}))}

EditRespsFor(kind, data) ==
    IF kind = "Red" /\ Truthy(data, "unknown") THEN EditResps ELSE {NetErr(0)}

TorrentInfoResps ==
    {JsonResp(Envelope({"success"}, {Dict({"notifications"}, 1)}, {})),
     JsonResp(Envelope({"failure"}, {}, {"bad"})),
     NetErr(0)}

RiplogResps ==
    {JsonResp(Envelope({"success"}, {[log |-> t, log_sha256 |-> h]}, {})) :
        t \in 1..2, h \in {Sha256Hex(B64Decode(x)) : x \in 1..2}}
        \cup {JsonResp(Envelope({"success"}, {[log |-> 1]}, {})),
              JsonResp(Envelope({"failure"}, {}, {"bad"})),
              NetErr(0)}

\* client.upload(data, files)
UploadFiles(data, rinfo, r, redit) ==
    /\ client # "none"
    /\ now <= MaxTime
    /\ Len(sent) < MaxReqs
    /\ \E a \in {Upload(Mem(now, last_x_reqs, cookies, sent), client,
                       account_info, data, rinfo, r, redit)} :
           /\ now' = a.m.now
           /\ last_x_reqs' = a.m.reqs
           /\ cookies' = a.m.cookies
           /\ sent' = a.m.sent
           /\ account_info' = a.info
           /\ fetched' = fetched \o a.got
           /\ last' = Op("upload", data, a.m, 0, cookieFile)
    /\ UNCHANGED <<client, req_limit, cookieFile>>

\* client.torrent_info(...)
TorrentInfo(r) ==
    /\ client # "none"
    /\ now <= MaxTime
    /\ Len(sent) < MaxReqs
    /\ \E m \in {TorrentInfoOf(Mem(now, last_x_reqs, cookies, sent), client, r)} :
           /\ now' = m.now
           /\ last_x_reqs' = m.reqs
           /\ cookies' = m.cookies
           /\ sent' = m.sent
           /\ last' = Op("torrent_info", "", m, 0, cookieFile)
    /\ UNCHANGED <<client, req_limit, account_info, cookieFile, fetched>>

\* client.get_riplog(tor_id, log_id), which OpsApi alone has
Riplog(r) ==
    /\ client = "Ops"
    /\ now <= MaxTime
    /\ Len(sent) < MaxReqs
    /\ \E m \in {GetRiplog(Mem(now, last_x_reqs, cookies, sent), r)} :
           /\ now' = m.now
           /\ last_x_reqs' = m.reqs
           /\ cookies' = m.cookies
           /\ sent' = m.sent
           /\ last' = Op("get_riplog", "", m, 0, cookieFile)
    /\ UNCHANGED <<client, req_limit, account_info, cookieFile, fetched>>

\* what the index endpoint and the index page can answer
IndexResps ==
    {JsonResp(Envelope({"success"}, {p}, {})) : p \in Payloads}
        \cup {JsonResp(Envelope({"failure"}, {}, {"bad"})),
              Resp("unparseable", <<>>, "application/x-bittorrent", 200, 1, {}, "", 0),
              NetErr(0)}
        \cup PageResps

\* the calls the operations of the clients make
Calls ==
    {<<"index", FALSE>>, <<"upload", TRUE>>, <<"login", TRUE>>}

Next ==
    \/ ExpireCookie
    \/ \E kind \in Kinds, r \in LoginResps : Construct(kind, r)
    \/ Discard
    \/ Len(sent) < MaxCalls /\ \E c \in Calls, r \in Responses : Request(c[1], c[2], r)
    \/ Len(sent) < MaxCalls /\ \E r \in IndexResps : AccountInfo(r)
    \/ Len(sent) < MaxCalls /\ \E r \in IndexResps : Announce(r)
    \/ Len(sent) < MaxCalls
          /\ \E data \in UploadData, rinfo \in InfoRespsFor(account_info),
                r \in UploadResps :
                \E redit \in EditRespsFor(client, data) :
                    UploadFiles(data, rinfo, r, redit)
    \/ Len(sent) < MaxCalls /\ \E r \in TorrentInfoResps : TorrentInfo(r)
    \/ Len(sent) < MaxCalls /\ \E r \in RiplogResps : Riplog(r)

Spec == Init /\ [][Next]_vars

(***************************************************************************)
(* The same client under a clock that advances between the calls, with     *)
(* the answers of the transport reduced to their effect on the rate        *)
(* limiter: a response, or a failure of the exchange, after some latency.  *)
(***************************************************************************)
RateResps == {JsonResp(Envelope({"success"}, {Dict(InfoKeys, 1)}, {})), NetErr(0)}

RateLogin == [JsonResp(Envelope({"success"}, {Dict({}, 1)}, {})) EXCEPT !.cookie = "session"]

InitRate == Init /\ cookieFile = File("missing", {})

NextRate ==
    \/ Tick
    \/ \E kind \in Kinds : Construct(kind, RateLogin)
    \/ Discard
    \/ \E r \in RateResps, lat \in 0..MaxLatency :
          Request("index", FALSE, [r EXCEPT !.lat = lat])

SpecRate == InitRate /\ [][NextRate]_vars

(***************************************************************************)
(* Properties.                                                             *)
(***************************************************************************)

\* C1: with request limit N, the (k+N)-th request handed to the transport by
\* request() is dispatched at least 10 seconds after the k-th, so that no
\* rolling 10-second window holds more than N dispatched requests.
C1_WindowNeverExceeded ==
    \A k \in 1..Len(sent) :
        k + req_limit <= Len(sent) => sent[k + req_limit] >= sent[k] + Window

\* the parsed body of a response, as a Python value
JsonVal(r) == IF r.kind = "object" THEN DictVal(r.body) ELSE <<"json", r.body>>

StatusOf(r) ==
    IF r.kind = "object" /\ "status" \in DOMAIN r.body THEN r.body["status"]
    ELSE ""

\* the one exchange of the last operation, when that was a call of request()
LastResp == last.wire[1].resp

RequestAnswered ==
    last.op = "request" /\ Len(last.wire) = 1 /\ LastResp.kind # "neterr"

Parsed(r) == r.kind \in {"object", "nonobject"}

\* C2: request() classifies a response by its shape alone: a body that parses
\* as JSON with status "success" returns exactly its response field, status
\* "failure" raises RequestFailure with exactly its error field, any other or
\* missing status raises RequestFailure with the whole parsed body, and an
\* unparseable body of a bittorrent content type returns the raw bytes.
C2_ClassifiedByShape ==
    RequestAnswered =>
        /\ (Parsed(LastResp) /\ StatusOf(LastResp) = "success"
                /\ "response" \in DOMAIN LastResp.body)
              => last.out = Return(DictVal(LastResp.body["response"]))
        /\ (Parsed(LastResp) /\ StatusOf(LastResp) = "failure"
                /\ "error" \in DOMAIN LastResp.body)
              => last.out = Raise("RequestFailure", StrVal(LastResp.body["error"]))
        /\ (Parsed(LastResp) /\ StatusOf(LastResp) \notin {"success", "failure"})
              => last.out = Raise("RequestFailure", JsonVal(LastResp))
        /\ (LastResp.kind = "unparseable" /\ LastResp.ctype \in TorrentTypes)
              => last.out = Return(BytesVal(LastResp.content))

\* the Opaque outcome: the final URL and the body text of the response
OpaqueVal(e) == <<"opaque", e.suffix, e.resp.content>>

\* C3: a response whose body does not parse and is not a bittorrent payload
\* propagates an HTTP error when the status code indicates failure, and is
\* otherwise returned as an Opaque outcome (final URL and body text), without
\* RequestFailure.
C3_OpaqueOrHttpError ==
    (RequestAnswered /\ LastResp.kind = "unparseable"
        /\ LastResp.ctype \notin TorrentTypes \cup {""})
      => IF LastResp.code >= 400
         THEN last.out.kind = "raise" /\ last.out.exc = "HTTPError"
         ELSE last.out = Return(OpaqueVal(last.wire[1]))

\* a CookieApi or HtmlApi client was constructed (or its construction failed)
\* from a cookie file that loads as a cookie jar
SessionAuth ==
    last.op = "construct" /\ last.arg \in CookieKinds /\ last.file0.st = "jar"

ValidSession(jar) == \E c \in jar : c.name = "session" /\ ~c.expired

LoginDispatched ==
    /\ Len(last.wire) = 1
    /\ last.wire[1].suffix = "login"
    /\ last.wire[1].method = "POST"

\* C4: a persisted cookie jar whose session cookie is expired, or that holds
\* no session cookie, is never accepted: authentication goes on to the login
\* step, which obtains the credentials, clears the cookies and issues the
\* login request.
C4_ExpiredNeverAccepted ==
    (SessionAuth /\ ~ValidSession(last.file0.jar))
      => /\ last.cred = 1
         /\ LoginDispatched
         /\ client # "none" => cookies = SetCookies(LastResp)

C4_Witness ==
    /\ SessionAuth
    /\ \E c \in last.file0.jar : c.name = "session" /\ c.expired
    /\ last.cred = 1
    /\ client = last.arg

\* C5: when the persisted jar loads and holds an unexpired session cookie,
\* authentication completes with no transport request, without invoking the
\* credential source and without changing the rate-limiter history or the
\* cookie file.
C5_ValidSessionNoNetwork ==
    (SessionAuth /\ ValidSession(last.file0.jar))
      => /\ client = last.arg
         /\ last.out = Return(None)
         /\ last.wire = <<>>
         /\ last.cred = 0
         /\ sent = <<>>
         /\ last_x_reqs = <<Sentinel>>
         /\ cookieFile = last.file0

C5_Witness ==
    /\ SessionAuth
    /\ ValidSession(last.file0.jar)
    /\ client = last.arg
    /\ last.wire = <<>>

\* the login step ran and its request was answered
LoginAnswered ==
    /\ last.op = "construct"
    /\ last.arg \in CookieKinds
    /\ last.cred = 1
    /\ LoginDispatched
    /\ LastResp.kind # "neterr"

\* C6: when no valid persisted session exists and the response of the login
\* POST sets a session cookie, authentication completes and the cookie jar is
\* persisted, whatever the body of the login response is.
C6_LoginBypassesEnvelope ==
    (LoginAnswered /\ LastResp.cookie = "session")
      => /\ client = last.arg
         /\ last.out = Return(None)
         /\ cookieFile.st = "jar"
         /\ ValidSession(cookieFile.jar)

\* C7: if the login request completes without the response having set a
\* session cookie, authentication fails with an error, no client object is
\* obtained and the cookie jar is not written to the cookie file.
C7_NoSessionCookieAborts ==
    (LoginAnswered /\ LastResp.cookie # "session")
      => /\ last.out.kind = "raise"
         /\ client = "none"
         /\ cookieFile = last.file0

C7_Witness ==
    /\ LoginAnswered
    /\ LastResp.cookie = "other"
    /\ Interpret(LastResp).kind = "return"
    /\ last.out = Raise("AssertionError", None)
    /\ client = "none"

\* C8: every token-strategy request goes to the ajax path with the parameter
\* action equal to the endpoint name, upload included; a session-strategy
\* request for upload or login goes to the endpoint's own path with no action
\* parameter, and every other session-strategy request to the ajax path with
\* action equal to the endpoint name.
C8_EndpointRouting ==
    (last.op = "request" /\ Len(last.wire) = 1)
      => LET e == last.wire[1]
         IN  IF client \in CookieKinds /\ last.arg \in {"upload", "login"}
             THEN e.suffix = last.arg /\ e.action = ""
             ELSE e.suffix = "ajax" /\ e.action = last.arg

C8_Witness ==
    /\ last.op = "request"
    /\ client \in KeyKinds
    /\ last.arg = "upload"
    /\ last.wire[1].suffix = "ajax"
    /\ last.wire[1].action = "upload"

\* C9: account info is fetched at most once per client: after the first
\* access whose fetch returned without error, every later access of
\* account_info or announce dispatches no request and yields the same value,
\* whatever fields the fetched response contained.
C9_FetchedOnce ==
    (last.op \in {"account_info", "announce"} /\ last.had >= 1)
      => /\ last.wire = <<>>
         /\ last.op = "account_info" => last.out = Return(DictVal(fetched[1]))

\* the fields accountInfo() is expected to deliver
Expected == IF client = "Html" THEN PageKeys ELSE InfoKeys

\* C10: accountInfo() fails with an error whenever an expected field is
\* absent from the fetched data; it never returns a record with an expected
\* field missing.
C10_MissingFieldFails ==
    (last.op = "account_info" /\ last.out.kind = "return")
      => Expected \subseteq DOMAIN last.out.val[2]

\* the exchanges of the last operation that post the upload form, and those
\* that send the follow-up edit
UploadsOf(w) == {i \in 1..Len(w) : w[i].action = "upload" \/ w[i].suffix = "upload"}
EditsOf(w) == {i \in 1..Len(w) : w[i].action = "torrentedit"}

SuccessEnvelope(r) ==
    r.kind = "object" /\ StatusOf(r) = "success" /\ "response" \in DOMAIN r.body

RedUpload == last.op = "upload" /\ client = "Red"

\* C11: a RED upload flagged unknown whose primary upload succeeded with
\* torrentid T and groupid G returns (T, G, base URL + torrents.php?id=G&
\* torrentid=T) whatever the outcome of the follow-up torrentedit request: no
\* failure of the follow-up propagates or changes the result.
C11_FollowUpNeverFails ==
    \A i \in UploadsOf(last.wire) :
        (/\ RedUpload
         /\ Truthy(last.arg, "unknown")
         /\ SuccessEnvelope(last.wire[i].resp)
         /\ {"torrentid", "groupid"} \subseteq DOMAIN last.wire[i].resp.body["response"])
          => LET d == last.wire[i].resp.body["response"]
                 T == IntVal(d["torrentid"])
                 G == IntVal(d["groupid"])
             IN  last.out = Return(TupleVal(<<T, G, ViewUrl(G, T)>>))

\* the rip log request of the last operation was answered with a log and a
\* checksum
RiplogAnswered ==
    /\ last.op = "get_riplog"
    /\ Len(last.wire) = 1
    /\ SuccessEnvelope(LastResp)
    /\ {"log", "log_sha256"} \subseteq DOMAIN LastResp.body["response"]

\* C12: get_riplog returns the base64-decoded log bytes exactly when their
\* SHA-256 hex digest equals the log_sha256 field of the response; on a
\* mismatch it raises and returns nothing.
C12_RiplogChecksum ==
    RiplogAnswered
      => LET d == LastResp.body["response"]
             b == B64Decode(d["log"])
         IN  IF Sha256Hex(b) = d["log_sha256"]
             THEN last.out = Return(BytesVal(b))
             ELSE last.out.kind = "raise"

C12_Witness ==
    /\ RiplogAnswered
    /\ Sha256Hex(B64Decode(LastResp.body["response"]["log"]))
           # LastResp.body["response"]["log_sha256"]
    /\ last.out = Raise("AssertionError", None)

\* "'torrents.php' in r.url"
OnTorrentPage(url) == url \in {"torrents.php?id=7"}

\* C13: on the session-cookie variant an upload whose response ends at a
\* final URL containing torrents.php returns that URL; one whose final URL
\* does not contain it raises RequestFailure with the red error paragraph of
\* the body, or with the URL when there is no such paragraph.
C13_CookieUploadByUrl ==
    \A i \in UploadsOf(last.wire) :
        (/\ last.op = "upload"
         /\ client \in CookieKinds
         /\ "url" \in DOMAIN last.wire[i].resp)
          => LET r == last.wire[i].resp
             IN  IF OnTorrentPage(r.url) THEN last.out = Return(StrVal(r.url))
                 ELSE last.out =
                        Raise("RequestFailure",
                              StrVal(IF r.warning # "" THEN r.warning ELSE r.url))

\* C14: torrent_info on the HTML-only variant always fails, without
\* dispatching a request and without changing the rate-limiter history or the
\* account-info cache; the client stays usable.
C14_HtmlTorrentInfoFails ==
    [][(client = "Html" /\ \E r \in TorrentInfoResps : TorrentInfo(r))
         => /\ last'.out.kind = "raise"
            /\ last'.out.exc = "AttributeError"
            /\ last'.wire = <<>>
            /\ UNCHANGED <<client, now, last_x_reqs, account_info, cookies,
                           sent, fetched>>]_vars

C14_Witness ==
    /\ last.op = "torrent_info"
    /\ client = "Html"
    /\ last.out.exc = "AttributeError"
    /\ last.wire = <<>>

Min(a, b) == IF a <= b THEN a ELSE b

\* C15: the rate-limiter history is the last N elements of the sentinel
\* followed by one timestamp per request handed to the transport, in dispatch
\* order: every dispatched request adds one newest entry whatever its outcome.
C15_HistoryIsLastN ==
    LET n == Len(last_x_reqs)
        total == Len(sent) + 1
    IN  /\ n = Min(req_limit, total)
        /\ \A i \in 1..n :
              LET j == total - n + i - 1
              IN  IF j = 0 THEN last_x_reqs[i] = Sentinel
                  ELSE last_x_reqs[i] \in sent[j]..(sent[j] + MaxLatency)

\* C16: on a fresh client with limit N the first N-1 requests are dispatched
\* without a rate-limiter sleep, however quickly they follow one another.
C16_FirstRequestsUnthrottled ==
    [][(Len(sent') = Len(sent) + 1 /\ Len(sent') <= req_limit - 1)
         => sent'[Len(sent')] = now]_vars

C16_Witness ==
    /\ req_limit >= 3
    /\ Len(sent) >= 2
    /\ sent[2] = sent[1]

C18_EveryExchangeRecorded ==
    (client # "none" /\ last.wire # <<>>
        /\ last.wire[Len(last.wire)].resp.kind # "neterr")
      => LET e == last.wire[Len(last.wire)]
         IN  last_x_reqs[Len(last_x_reqs)] = e.at + e.resp.lat

\* C19: any failure to read the cookie file (missing, malformed, unreadable)
\* counts as no valid session: it does not propagate out of the construction
\* and leads to the login step.
C19_ReadFailureMeansLogin ==
    (last.op = "construct" /\ last.arg \in CookieKinds /\ last.file0.st # "jar")
      => /\ last.cred = 1
         /\ LoginDispatched
         /\ last.out.exc \notin {"PermissionError"}

====
